---- MODULE Spec2Model ----
(***************************************************************************)
(* Model of cinder/scheduler/rpcapi.py: SchedulerAPI, the client side of   *)
(* the scheduler manager RPC API.  Every method of the class is modelled   *)
(* by an operator of the same name that computes, from the arguments and   *)
(* the answer of the client's can_send_version predicate, what the method  *)
(* hands to the transport and how it ends.                                 *)
(*                                                                         *)
(* Two specifications use these operators:                                 *)
(*   Spec      one caller; each method call is one atomic step;            *)
(*   SpecConc  several callers on the same SchedulerAPI instance, each     *)
(*             method split at its can_send_version query, with the        *)
(*             version cap free to change between any two steps.           *)
(***************************************************************************)
EXTENDS Integers, Sequences, FiniteSets, TLC

VARIABLES
    capability,   \* the version cap of self.client: <<major, minor>>
    clock,        \* what timeutils.utcnow() returns now
    workers,      \* the volumes whose create_worker() has been called
    last,         \* Spec: the record of the most recent method call
    prev,         \* Spec: the record of the call before it
    inv           \* SpecConc: per caller, the method call in progress

vars == <<capability, clock, workers, last, prev, inv>>

(***************************************************************************)
(* Bounds of the model.                                                    *)
(***************************************************************************)
MaxClock == 1     \* the clock runs from 0 to MaxClock
NumCallers == 2   \* concurrent callers of SpecConc

(***************************************************************************)
(* Versions.                                                               *)
(***************************************************************************)
RPC_API_VERSION == <<3, 3>>
RPC_DEFAULT_VERSION == <<3, 0>>

\* The version caps the client may be pinned to: every 3.x version up to
\* the client's own RPC_API_VERSION.
Capabilities == {<<RPC_API_VERSION[1], m>> : m \in 0..RPC_API_VERSION[2]}

\* client.can_send_version(version): the cap has the same major version and
\* a minor version at least as high.
can_send_version(cap, version) ==
    /\ cap[1] = version[1]
    /\ version[2] <= cap[2]

(***************************************************************************)
(* Values passed as arguments.  Every value is a record of the same shape  *)
(* so that any two values can be compared.                                 *)
(*   none  Python None          bool  True / False                         *)
(*   obj   a rich domain object prim  a primitive (dict / str / int) tree  *)
(*   time  a datetime           iso   the string form of a datetime        *)
(*   list  a Python list of values                                         *)
(***************************************************************************)
None == [k |-> "none", v |-> 0, items |-> <<>>]
Obj(i) == [k |-> "obj", v |-> i, items |-> <<>>]
Prim(i) == [k |-> "prim", v |-> i, items |-> <<>>]
Time(n) == [k |-> "time", v |-> n, items |-> <<>>]
Iso(n) == [k |-> "iso", v |-> n, items |-> <<>>]
Bool(b) == [k |-> "bool", v |-> IF b THEN 1 ELSE 0, items |-> <<>>]
List(s) == [k |-> "list", v |-> 0, items |-> s]

\* jsonutils.to_primitive on a value that is not a container: an object
\* becomes its primitive tree, a datetime its string form, anything else
\* (None, booleans, primitives) is returned as it is.
to_primitive_item(x) ==
    CASE x.k = "obj" -> Prim(x.v)
      [] x.k = "time" -> Iso(x.v)
      [] OTHER -> x

\* jsonutils.to_primitive: a list is converted element by element.
to_primitive(x) ==
    IF x.k = "list"
    THEN List([i \in DOMAIN x.items |-> to_primitive_item(x.items[i])])
    ELSE to_primitive_item(x)

\* [jsonutils.to_primitive(rs) for rs in request_spec_list], for a list.
to_primitive_each(l) ==
    List([i \in DOMAIN l.items |-> to_primitive_item(l.items[i])])

\* Whether Python can iterate over the value.
Iterable(x) == x.k = "list"

(***************************************************************************)
(* The transport.                                                          *)
(***************************************************************************)
\* What a method passes as version when it passes none.
NoVersion == <<0, 0>>

\* self._get_cctxt(version=None, **kwargs): the prepared call context; a
\* call that names no version is sent at RPC_DEFAULT_VERSION.
get_cctxt(version, fanout) ==
    [version |-> IF version = NoVersion THEN RPC_DEFAULT_VERSION ELSE version,
     fanout |-> fanout]

\* cctxt.cast(ctxt, method, **msg_args): the message the transport receives.
cast(cctxt, ctxt, method, msg_args) ==
    [kind |-> "cast", fanout |-> cctxt.fanout, version |-> cctxt.version,
     ctxt |-> ctxt, method |-> method, args |-> msg_args]

\* cctxt.call(ctxt, method, **msg_args): the message the transport receives.
call(cctxt, ctxt, method, msg_args) ==
    [kind |-> "call", fanout |-> cctxt.fanout, version |-> cctxt.version,
     ctxt |-> ctxt, method |-> method, args |-> msg_args]

(***************************************************************************)
(* How a method ends: the messages it handed to the transport, in order,   *)
(* the volumes it called create_worker() on, and the value it returned or  *)
(* the exception it raised.                                                *)
(***************************************************************************)
Returned(msgs, worker, result) ==
    [outcome |-> "returned", msgs |-> msgs, worker |-> worker, result |-> result]

Raised(exc) ==
    [outcome |-> exc, msgs |-> <<>>, worker |-> {}, result |-> None]

(***************************************************************************)
(* The methods of SchedulerAPI.  `a` holds the arguments by name, `can`    *)
(* the answer of the method's can_send_version query, `now` the value of   *)
(* timeutils.utcnow(), `reply` the transport's reply to a call.            *)
(***************************************************************************)
create_consistencygroup(a) ==
    LET cctxt == get_cctxt(NoVersion, FALSE) IN
    IF ~Iterable(a.request_spec_list)
    THEN Raised("TypeError")
    ELSE LET request_spec_p_list == to_primitive_each(a.request_spec_list)
             msg_args == [group |-> a.group,
                          request_spec_list |-> request_spec_p_list,
                          filter_properties_list |-> a.filter_properties_list]
         IN Returned(<<cast(cctxt, a.ctxt, "create_consistencygroup", msg_args)>>,
                     {}, None)

create_group(a) ==
    LET cctxt == get_cctxt(NoVersion, FALSE) IN
    IF ~Iterable(a.request_spec_list)
    THEN Raised("TypeError")
    ELSE LET request_spec_p_list == to_primitive_each(a.request_spec_list)
             group_spec_p == to_primitive(a.group_spec)
             msg_args == [group |-> a.group,
                          group_spec |-> group_spec_p,
                          request_spec_list |-> request_spec_p_list,
                          group_filter_properties |-> a.group_filter_properties,
                          filter_properties_list |-> a.filter_properties_list]
         IN Returned(<<cast(cctxt, a.ctxt, "create_group", msg_args)>>, {}, None)

\* create_volume without the call of volume.create_worker().
create_volume_no_worker(a) ==
    LET cctxt == get_cctxt(NoVersion, FALSE)
        msg_args == [snapshot_id |-> a.snapshot_id, image_id |-> a.image_id,
                     request_spec |-> a.request_spec,
                     filter_properties |-> a.filter_properties,
                     volume |-> a.volume]
    IN Returned(<<cast(cctxt, a.ctxt, "create_volume", msg_args)>>, {}, None)

create_volume(a) ==
    LET cctxt == get_cctxt(NoVersion, FALSE)
        msg_args == [snapshot_id |-> a.snapshot_id, image_id |-> a.image_id,
                     request_spec |-> a.request_spec,
                     filter_properties |-> a.filter_properties,
                     volume |-> a.volume]
    IN Returned(<<cast(cctxt, a.ctxt, "create_volume", msg_args)>>,
                {a.volume}, None)

\* version = '3.3' in migrate_volume
migrate_volume_version == <<3, 3>>

\* migrate_volume with the assignment version = '3.0' forgotten.
migrate_volume_old_version_kept == <<3, 3>>

\* version = '3.0' in the else branch of migrate_volume
migrate_volume_old_version == <<3, 0>>

migrate_volume(a, can) ==
    LET request_spec_p == to_primitive(a.request_spec)
        msg_args == [request_spec |-> request_spec_p,
                     filter_properties |-> a.filter_properties,
                     volume |-> a.volume]
    IN IF can
       THEN Returned(<<cast(get_cctxt(migrate_volume_version, FALSE), a.ctxt,
                            "migrate_volume",
                            msg_args @@ [backend |-> a.backend,
                                         force_copy |-> a.force_copy])>>,
                     {}, None)
       ELSE Returned(<<cast(get_cctxt(migrate_volume_old_version, FALSE), a.ctxt,
                            "migrate_volume_to_host",
                            msg_args @@ [host |-> a.backend,
                                         force_host_copy |-> a.force_copy])>>,
                     {}, None)

retype(a) ==
    LET cctxt == get_cctxt(NoVersion, FALSE)
        request_spec_p == to_primitive(a.request_spec)
        msg_args == [request_spec |-> request_spec_p,
                     filter_properties |-> a.filter_properties,
                     volume |-> a.volume]
    IN Returned(<<cast(cctxt, a.ctxt, "retype", msg_args)>>, {}, None)

manage_existing(a) ==
    LET cctxt == get_cctxt(NoVersion, FALSE)
        request_spec_p == to_primitive(a.request_spec)
        msg_args == [request_spec |-> request_spec_p,
                     filter_properties |-> a.filter_properties,
                     volume |-> a.volume]
    IN Returned(<<cast(cctxt, a.ctxt, "manage_existing", msg_args)>>, {}, None)

\* extend_volume asking about 3.3 instead of 3.2.
extend_volume_min_late == <<3, 3>>

\* cctxt.can_send_version('3.2') in extend_volume
extend_volume_min == <<3, 2>>

\* extend_volume without its can_send_version check.
extend_volume_unchecked(a, can) ==
    LET cctxt == get_cctxt(NoVersion, FALSE)
        request_spec_p == to_primitive(a.request_spec)
        msg_args == [volume |-> a.volume, new_size |-> a.new_size,
                     reservations |-> a.reservations,
                     request_spec |-> request_spec_p,
                     filter_properties |-> a.filter_properties]
    IN Returned(<<cast(cctxt, a.ctxt, "extend_volume", msg_args)>>, {}, None)

extend_volume(a, can) ==
    LET cctxt == get_cctxt(NoVersion, FALSE) IN
    IF ~can
    THEN Raised("ServiceTooOld")
    ELSE LET request_spec_p == to_primitive(a.request_spec)
             msg_args == [volume |-> a.volume, new_size |-> a.new_size,
                          reservations |-> a.reservations,
                          request_spec |-> request_spec_p,
                          filter_properties |-> a.filter_properties]
         IN Returned(<<cast(cctxt, a.ctxt, "extend_volume", msg_args)>>, {}, None)

\* get_pools sent with cast instead of call.
get_pools_as_cast(a, reply) ==
    LET cctxt == get_cctxt(NoVersion, FALSE)
    IN Returned(<<cast(cctxt, a.ctxt, "get_pools", [filters |-> a.filters])>>,
                {}, None)

get_pools(a, reply) ==
    LET cctxt == get_cctxt(NoVersion, FALSE)
    IN Returned(<<call(cctxt, a.ctxt, "get_pools", [filters |-> a.filters])>>,
                {}, reply)

\* version = '3.3' in update_service_capabilities
update_service_capabilities_version == <<3, 3>>

\* version = '3.0' in the else branch of update_service_capabilities
update_service_capabilities_old_version == <<3, 0>>

\* update_service_capabilities ignoring the caller's timestamp.
update_service_capabilities_always_now(a, can, now) ==
    LET msg_args == [service_name |-> a.service_name, host |-> a.host,
                     capabilities |-> a.capabilities]
    IN IF can
       THEN Returned(<<cast(get_cctxt(update_service_capabilities_version, TRUE),
                            a.ctxt, "update_service_capabilities",
                            msg_args @@ [cluster_name |-> a.cluster_name,
                                         timestamp |-> to_primitive(Time(now))])>>,
                     {}, None)
       ELSE Returned(<<cast(get_cctxt(update_service_capabilities_old_version, TRUE),
                            a.ctxt, "update_service_capabilities", msg_args)>>,
                     {}, None)

\* update_service_capabilities sending the timestamp in the 3.0 shape too.
update_service_capabilities_stamp_kept(a, can, now) ==
    LET timestamp == IF a.timestamp # None THEN a.timestamp ELSE Time(now)
        msg_args == [service_name |-> a.service_name, host |-> a.host,
                     capabilities |-> a.capabilities]
    IN IF can
       THEN Returned(<<cast(get_cctxt(update_service_capabilities_version, TRUE),
                            a.ctxt, "update_service_capabilities",
                            msg_args @@ [cluster_name |-> a.cluster_name,
                                         timestamp |-> to_primitive(timestamp)])>>,
                     {}, None)
       ELSE Returned(<<cast(get_cctxt(update_service_capabilities_old_version, TRUE),
                            a.ctxt, "update_service_capabilities",
                            msg_args @@ [timestamp |-> to_primitive(timestamp)])>>,
                     {}, None)

update_service_capabilities(a, can, now) ==
    LET msg_args == [service_name |-> a.service_name, host |-> a.host,
                     capabilities |-> a.capabilities]
    IN IF can
       THEN LET timestamp == IF a.timestamp # None THEN a.timestamp ELSE Time(now)
            IN Returned(<<cast(get_cctxt(update_service_capabilities_version, TRUE),
                               a.ctxt, "update_service_capabilities",
                               msg_args @@ [cluster_name |-> a.cluster_name,
                                            timestamp |-> to_primitive(timestamp)])>>,
                        {}, None)
       ELSE Returned(<<cast(get_cctxt(update_service_capabilities_old_version, TRUE),
                            a.ctxt, "update_service_capabilities", msg_args)>>,
                     {}, None)

\* version='3.1' and can_send_version('3.1') in notify_service_capabilities
notify_service_capabilities_min == <<3, 1>>

notify_service_capabilities(a, can) ==
    LET cctxt == get_cctxt(notify_service_capabilities_min, FALSE) IN
    IF ~can
    THEN Raised("ServiceTooOld")
    ELSE Returned(<<cast(cctxt, a.ctxt, "notify_service_capabilities",
                         [service_name |-> a.service_name, host |-> a.host,
                          capabilities |-> a.capabilities])>>,
                  {}, None)

(***************************************************************************)
(* The methods by name.                                                    *)
(***************************************************************************)
Methods ==
    {"create_consistencygroup", "create_group", "create_volume",
     "migrate_volume", "retype", "manage_existing", "extend_volume",
     "get_pools", "update_service_capabilities", "notify_service_capabilities"}

\* The versions a method asks can_send_version about, in order.
checked_versions(op) ==
    CASE op = "migrate_volume" -> <<migrate_volume_version>>
      [] op = "extend_volume" -> <<extend_volume_min>>
      [] op = "update_service_capabilities" -> <<update_service_capabilities_version>>
      [] op = "notify_service_capabilities" -> <<notify_service_capabilities_min>>
      [] OTHER -> <<>>

\* The answer a method that asks nothing is run with (it does not read it).
NotAsked == FALSE

\* What calling method `op` does.
Handle(op, a, can, now, reply) ==
    CASE op = "create_consistencygroup" -> create_consistencygroup(a)
      [] op = "create_group" -> create_group(a)
      [] op = "create_volume" -> create_volume(a)
      [] op = "migrate_volume" -> migrate_volume(a, can)
      [] op = "retype" -> retype(a)
      [] op = "manage_existing" -> manage_existing(a)
      [] op = "extend_volume" -> extend_volume(a, can)
      [] op = "get_pools" -> get_pools(a, reply)
      [] op = "update_service_capabilities" -> update_service_capabilities(a, can, now)
      [] op = "notify_service_capabilities" -> notify_service_capabilities(a, can)

(***************************************************************************)
(* The arguments callers pass.  Caller `id` passes objects of its own, so  *)
(* that the values of two callers differ.                                  *)
(***************************************************************************)
Tag(id, slot) == 20 * id + slot

\* A call of `op` by caller `id` with every argument given.
Given(op, id) ==
    CASE op = "create_consistencygroup" ->
           [ctxt |-> Obj(Tag(id, 0)), group |-> Obj(Tag(id, 1)),
            request_spec_list |-> List(<<Obj(Tag(id, 2))>>),
            filter_properties_list |-> List(<<Prim(Tag(id, 4))>>)]
      [] op = "create_group" ->
           [ctxt |-> Obj(Tag(id, 0)), group |-> Obj(Tag(id, 1)),
            group_spec |-> Obj(Tag(id, 3)),
            request_spec_list |-> List(<<Obj(Tag(id, 2))>>),
            group_filter_properties |-> Prim(Tag(id, 12)),
            filter_properties_list |-> List(<<Prim(Tag(id, 4))>>)]
      [] op = "create_volume" ->
           [ctxt |-> Obj(Tag(id, 0)), volume |-> Obj(Tag(id, 1)),
            snapshot_id |-> Prim(Tag(id, 13)), image_id |-> Prim(Tag(id, 14)),
            request_spec |-> Obj(Tag(id, 2)),
            filter_properties |-> Prim(Tag(id, 4))]
      [] op = "migrate_volume" ->
           [ctxt |-> Obj(Tag(id, 0)), volume |-> Obj(Tag(id, 1)),
            backend |-> Prim(Tag(id, 5)), force_copy |-> Bool(TRUE),
            request_spec |-> Obj(Tag(id, 2)),
            filter_properties |-> Prim(Tag(id, 4))]
      [] op = "retype" ->
           [ctxt |-> Obj(Tag(id, 0)), volume |-> Obj(Tag(id, 1)),
            request_spec |-> Obj(Tag(id, 2)),
            filter_properties |-> Prim(Tag(id, 4))]
      [] op = "manage_existing" ->
           [ctxt |-> Obj(Tag(id, 0)), volume |-> Obj(Tag(id, 1)),
            request_spec |-> Obj(Tag(id, 2)),
            filter_properties |-> Prim(Tag(id, 4))]
      [] op = "extend_volume" ->
           [ctxt |-> Obj(Tag(id, 0)), volume |-> Obj(Tag(id, 1)),
            new_size |-> Prim(Tag(id, 9)), reservations |-> Prim(Tag(id, 10)),
            request_spec |-> Obj(Tag(id, 2)),
            filter_properties |-> Prim(Tag(id, 4))]
      [] op = "get_pools" ->
           [ctxt |-> Obj(Tag(id, 0)), filters |-> Prim(Tag(id, 11))]
      [] op = "update_service_capabilities" ->
           [ctxt |-> Obj(Tag(id, 0)), service_name |-> Prim(Tag(id, 6)),
            host |-> Prim(Tag(id, 5)), capabilities |-> Prim(Tag(id, 7)),
            cluster_name |-> Prim(Tag(id, 8)), timestamp |-> Time(0)]
      [] op = "notify_service_capabilities" ->
           [ctxt |-> Obj(Tag(id, 0)), service_name |-> Prim(Tag(id, 6)),
            host |-> Prim(Tag(id, 5)), capabilities |-> Prim(Tag(id, 7))]

\* The names of the optional arguments of a method.
Optional(op) ==
    CASE op = "create_consistencygroup" -> {"request_spec_list", "filter_properties_list"}
      [] op = "create_group" -> {"group_spec", "request_spec_list",
                                 "group_filter_properties", "filter_properties_list"}
      [] op = "create_volume" -> {"snapshot_id", "image_id", "request_spec",
                                  "filter_properties"}
      [] op = "migrate_volume" -> {"force_copy", "request_spec", "filter_properties"}
      [] op = "retype" -> {"request_spec", "filter_properties"}
      [] op = "manage_existing" -> {"request_spec", "filter_properties"}
      [] op = "extend_volume" -> {"filter_properties"}
      [] op = "get_pools" -> {"filters"}
      [] op = "update_service_capabilities" -> {"timestamp"}
      [] OTHER -> {}

\* The declared default of an optional argument.
Default(name) == IF name = "force_copy" THEN Bool(FALSE) ELSE None

\* The call Given(op, id) with the optional arguments in `left` left out.
Leaving(op, id, left) ==
    [n \in DOMAIN Given(op, id) |->
        IF n \in left THEN Default(n) ELSE Given(op, id)[n]]

\* The calls of `op` by caller `id`: with every argument given, with every
\* optional argument left at its default, with request_spec_list alone
\* left at its default.
Inputs(op, id) ==
    {Leaving(op, id, left) :
        left \in {{}, Optional(op), Optional(op) \cap {"request_spec_list"}}}

\* What the transport may reply to a call.
Replies == {Prim(1), Prim(2)}

(***************************************************************************)
(* Spec: one caller (caller 1), one step per method call.                  *)
(***************************************************************************)
\* The record of a method call: its arguments, what it asked the predicate
\* and was told, the cap it met, the volumes that had a worker before it,
\* the transport's reply (to a call), the messages it handed to the
\* transport and how it ended.
NoCall ==
    [op |-> "none", a |-> [ctxt |-> None], asked |-> <<>>, cap |-> NoVersion,
     wbefore |-> {},
     reply |-> None, outcome |-> "none", sent |-> <<>>, result |-> None]

\* The queries `op` makes of can_send_version under cap `cap`, each with
\* the version asked about and the answer.
Asked(op, cap) ==
    [i \in DOMAIN checked_versions(op) |->
        [version |-> checked_versions(op)[i],
         answer |-> can_send_version(cap, checked_versions(op)[i])]]

\* The cap a call met: the cap at the time of its query, NoVersion when it
\* made none.
Met(op, cap) == IF checked_versions(op) = <<>> THEN NoVersion ELSE cap

Answer(asked) == IF asked = <<>> THEN NotAsked ELSE asked[1].answer

Invoke(op, a, reply) ==
    LET asked == Asked(op, capability)
        eff == Handle(op, a, Answer(asked), clock, reply)
    IN /\ workers' = workers \cup eff.worker
       /\ prev' = last
       /\ last' = [op |-> op, a |-> a, asked |-> asked,
                   cap |-> Met(op, capability), wbefore |-> workers,
                   reply |-> reply, outcome |-> eff.outcome, sent |-> eff.msgs,
                   result |-> eff.result]
       /\ UNCHANGED <<capability, clock, inv>>

CreateConsistencygroup ==
    \E a \in Inputs("create_consistencygroup", 1) :
        Invoke("create_consistencygroup", a, None)

CreateGroup ==
    \E a \in Inputs("create_group", 1) : Invoke("create_group", a, None)

CreateVolume ==
    \E a \in Inputs("create_volume", 1) : Invoke("create_volume", a, None)

MigrateVolume ==
    \E a \in Inputs("migrate_volume", 1) : Invoke("migrate_volume", a, None)

Retype ==
    \E a \in Inputs("retype", 1) : Invoke("retype", a, None)

ManageExisting ==
    \E a \in Inputs("manage_existing", 1) : Invoke("manage_existing", a, None)

ExtendVolume ==
    \E a \in Inputs("extend_volume", 1) : Invoke("extend_volume", a, None)

GetPools ==
    \E a \in Inputs("get_pools", 1), reply \in Replies :
        Invoke("get_pools", a, reply)

UpdateServiceCapabilities ==
    \E a \in Inputs("update_service_capabilities", 1) :
        Invoke("update_service_capabilities", a, None)

NotifyServiceCapabilities ==
    \E a \in Inputs("notify_service_capabilities", 1) :
        Invoke("notify_service_capabilities", a, None)

\* The fleet is upgraded or rolled back: the cap changes between calls.
CapabilityChange ==
    /\ \E c \in Capabilities \ {capability} : capability' = c
    /\ UNCHANGED <<clock, workers, last, prev, inv>>

\* Time passes.
Tick ==
    /\ clock < MaxClock
    /\ clock' = clock + 1
    /\ UNCHANGED <<capability, workers, last, prev, inv>>

(***************************************************************************)
(* SpecConc: several callers on the same SchedulerAPI instance.  A method  *)
(* that asks can_send_version takes two steps, the query and the rest of   *)
(* the method; the other methods take one.  The cap may change between any *)
(* two steps.                                                              *)
(***************************************************************************)
Callers == 1..NumCallers

Idle == [pc |-> "idle", op |-> "none", a |-> [ctxt |-> None], asked |-> <<>>,
         outcome |-> "none", sent |-> <<>>, result |-> None]

\* The arguments caller t passes to `op`.
ConcInputs(op, t) == {Given(op, t)}

RepliesTo(op) == IF op = "get_pools" THEN Replies ELSE {None}

Finished(op, a, asked, eff) ==
    [pc |-> "done", op |-> op, a |-> a, asked |-> asked,
     outcome |-> eff.outcome, sent |-> eff.msgs, result |-> eff.result]

\* The branch chosen by asking can_send_version a second time.
DecidedAgain(t) ==
    can_send_version(capability, checked_versions(inv[t].op)[1])

\* The branch a method takes after its query: the one the answer it was
\* given selects.
Decided(t) == Answer(inv[t].asked)

\* Caller t calls a method that asks nothing: the whole method runs.
Call(t) ==
    /\ inv[t].pc = "idle"
    /\ \E op \in {m \in Methods : checked_versions(m) = <<>>} :
       \E a \in ConcInputs(op, t), reply \in RepliesTo(op) :
          LET eff == Handle(op, a, NotAsked, clock, reply)
          IN /\ inv' = [inv EXCEPT ![t] = Finished(op, a, <<>>, eff)]
             /\ workers' = workers \cup eff.worker
    /\ UNCHANGED <<capability, clock, last, prev>>

\* Caller t calls a method that asks can_send_version: the method runs up
\* to the answer of its query.
Query(t) ==
    /\ inv[t].pc = "idle"
    /\ \E op \in {m \in Methods : checked_versions(m) # <<>>} :
       \E a \in ConcInputs(op, t) :
          inv' = [inv EXCEPT ![t] = [Idle EXCEPT !.pc = "asked", !.op = op, !.a = a,
                                          !.asked = Asked(op, capability)]]
    /\ UNCHANGED <<capability, clock, workers, last, prev>>

\* The rest of the method of caller t.
Send(t) ==
    /\ inv[t].pc = "asked"
    /\ LET eff == Handle(inv[t].op, inv[t].a, Decided(t), clock, None)
       IN /\ inv' = [inv EXCEPT ![t] = Finished(inv[t].op, inv[t].a,
                                                inv[t].asked, eff)]
          /\ workers' = workers \cup eff.worker
    /\ UNCHANGED <<capability, clock, last, prev>>

\* Caller t has its result and may call again.
Return(t) ==
    /\ inv[t].pc = "done"
    /\ inv' = [inv EXCEPT ![t] = Idle]
    /\ UNCHANGED <<capability, clock, workers, last, prev>>

Init ==
    /\ capability \in Capabilities
    /\ clock = 0
    /\ workers = {}
    /\ last = NoCall
    /\ prev = NoCall
    /\ inv = [t \in Callers |-> Idle]

Next ==
    \/ CreateConsistencygroup
    \/ CreateGroup
    \/ CreateVolume
    \/ MigrateVolume
    \/ Retype
    \/ ManageExisting
    \/ ExtendVolume
    \/ GetPools
    \/ UpdateServiceCapabilities
    \/ NotifyServiceCapabilities
    \/ CapabilityChange
    \/ Tick

Spec == Init /\ [][Next]_vars

NextConc ==
    \/ \E t \in Callers : Call(t)
    \/ \E t \in Callers : Query(t)
    \/ \E t \in Callers : Send(t)
    \/ \E t \in Callers : Return(t)
    \/ CapabilityChange

SpecConc == Init /\ [][NextConc]_vars

(***************************************************************************)
(* Properties.                                                             *)
(***************************************************************************)
VersionLess(v, w) == v[1] < w[1] \/ (v[1] = w[1] /\ v[2] < w[2])

\* The call asked can_send_version about `version` and was told yes / no.
Supported(c, version) ==
    \E i \in DOMAIN c.asked : c.asked[i].version = version /\ c.asked[i].answer

Unsupported(c, version) ==
    \E i \in DOMAIN c.asked : c.asked[i].version = version /\ ~c.asked[i].answer

\* The call asked about `version` under cap `cap`.
AskedUnder(c, version, cap) ==
    /\ \E i \in DOMAIN c.asked : c.asked[i].version = version
    /\ c.cap = cap

Keys(m) == DOMAIN m.args

SentOneCast(c) ==
    /\ c.outcome = "returned"
    /\ Len(c.sent) = 1
    /\ c.sent[1].kind = "cast"

\* C1: a call of extend_volume (gated at 3.2) or notify_service_capabilities
\* (gated at 3.1) that is told its gating version cannot be sent ends with
\* ServiceTooOld and hands nothing to the transport.
C1_HardGateSendsNothing ==
    \A c \in {last, prev} :
        (\/ c.op = "extend_volume" /\ Unsupported(c, <<3, 2>>)
         \/ c.op = "notify_service_capabilities" /\ Unsupported(c, <<3, 1>>))
        => c.outcome = "ServiceTooOld" /\ c.sent = <<>>

C1_Witness ==
    /\ last.op = "extend_volume" /\ Unsupported(last, <<3, 2>>)
    /\ last.outcome = "ServiceTooOld"
    /\ prev.op = "notify_service_capabilities" /\ Unsupported(prev, <<3, 1>>)
    /\ prev.outcome = "ServiceTooOld"

HardGate(c, op, gate) ==
    c.op = op =>
        /\ \E cap \in Capabilities : AskedUnder(c, gate, cap)
        /\ \A cap \in Capabilities :
              AskedUnder(c, gate, cap) =>
                 /\ c.outcome = "ServiceTooOld" <=> VersionLess(cap, gate)
                 /\ c.outcome = "ServiceTooOld" => c.sent = <<>>
                 /\ c.outcome # "ServiceTooOld" => SentOneCast(c)

\* C2: a hard-gated call under a cap equal to its gating version hands one
\* cast to the transport; it raises ServiceTooOld exactly when the cap is
\* strictly below the gating version.
C2_GateBoundary ==
    \A c \in {last, prev} :
        /\ HardGate(c, "extend_volume", <<3, 2>>)
        /\ HardGate(c, "notify_service_capabilities", <<3, 1>>)

C2_Witness ==
    /\ last.op = "extend_volume" /\ AskedUnder(last, <<3, 2>>, <<3, 2>>)
    /\ SentOneCast(last)
    /\ prev.op = "notify_service_capabilities"
    /\ AskedUnder(prev, <<3, 1>>, <<3, 1>>)
    /\ SentOneCast(prev)

MigrateShape(c) ==
    /\ SentOneCast(c)
    /\ ~c.sent[1].fanout
    /\ c.asked # <<>>
    /\ LET m == c.sent[1] IN
       IF Supported(c, <<3, 3>>)
       THEN /\ m.version = <<3, 3>>
            /\ m.method = "migrate_volume"
            /\ {"backend", "force_copy"} \subseteq Keys(m)
            /\ Keys(m) \cap {"host", "force_host_copy"} = {}
            /\ m.args.backend = c.a.backend
            /\ m.args.force_copy = c.a.force_copy
       ELSE /\ m.version = <<3, 0>>
            /\ m.method = "migrate_volume_to_host"
            /\ {"host", "force_host_copy"} \subseteq Keys(m)
            /\ Keys(m) \cap {"backend", "force_copy"} = {}
            /\ m.args.host = c.a.backend
            /\ m.args.force_host_copy = c.a.force_copy

\* C3: migrate_volume hands exactly one cast to the transport and never
\* raises: 'migrate_volume' at 3.3 with backend and force_copy when 3.3 can
\* be sent, 'migrate_volume_to_host' at 3.0 with host and force_host_copy
\* (the backend and force_copy arguments) when it cannot.
C3_MigrateShapes ==
    \A c \in {last, prev} : c.op = "migrate_volume" => MigrateShape(c)

C3_Witness ==
    /\ last.op = "migrate_volume" /\ Supported(last, <<3, 3>>)
    /\ last.sent[1].method = "migrate_volume"
    /\ prev.op = "migrate_volume" /\ Unsupported(prev, <<3, 3>>)
    /\ prev.sent[1].method = "migrate_volume_to_host"
    /\ prev.a.force_copy = Bool(TRUE)

UpdateShape(c, now) ==
    /\ SentOneCast(c)
    /\ c.sent[1].fanout
    /\ c.sent[1].method = "update_service_capabilities"
    /\ c.asked # <<>>
    /\ LET m == c.sent[1] IN
       /\ \A n \in {"service_name", "host", "capabilities"} :
             n \in Keys(m) /\ m.args[n] = c.a[n]
       /\ IF Supported(c, <<3, 3>>)
          THEN /\ m.version = <<3, 3>>
               /\ Keys(m) = {"service_name", "host", "capabilities",
                             "cluster_name", "timestamp"}
               /\ m.args.cluster_name = c.a.cluster_name
               /\ m.args.timestamp =
                     to_primitive(IF c.a.timestamp # None THEN c.a.timestamp
                                  ELSE Time(now))
          ELSE /\ m.version = <<3, 0>>
               /\ Keys(m) = {"service_name", "host", "capabilities"}

\* C4: every call of update_service_capabilities hands one fanout cast to
\* the transport and never raises; at 3.3 with cluster_name and the
\* timestamp (the caller's, or the time of the call) when 3.3 can be sent,
\* at 3.0 with service_name, host and capabilities alone when it cannot.
C4_UpdateShapes ==
    [][(<<last, prev>>' # <<last, prev>> /\ last'.op = "update_service_capabilities")
         => UpdateShape(last', clock)]_vars

C4_Witness ==
    /\ last.op = "update_service_capabilities" /\ Supported(last, <<3, 3>>)
    /\ last.a.timestamp = None
    /\ last.sent[1].args.timestamp = Iso(1)
    /\ prev.op = "update_service_capabilities" /\ Unsupported(prev, <<3, 3>>)
    /\ prev.a.timestamp # None
    /\ Len(prev.sent) = 1

SingleVariant ==
    {"create_consistencygroup", "create_group", "create_volume", "retype",
     "manage_existing", "get_pools"}

PassThrough(c) ==
    /\ Len(c.sent) = 1
    /\ LET m == c.sent[1] IN
       /\ m.method = c.op
       /\ m.ctxt = c.a.ctxt
       /\ ~m.fanout
       /\ m.kind = IF c.op = "get_pools" THEN "call" ELSE "cast"
       /\ Keys(m) = DOMAIN c.a \ {"ctxt"}
       /\ \A n \in Keys(m) : m.args[n] \in {c.a[n], to_primitive(c.a[n])}
    /\ c.result = IF c.op = "get_pools" THEN c.reply ELSE None

\* C5: a call of a method with one message shape that returns has handed
\* the transport one message whose arguments are exactly its own, each
\* unchanged or in primitive form; get_pools uses call and returns the
\* reply, the others use a cast that is no fanout.
C5_SingleVariantPassThrough ==
    \A c \in {last, prev} :
        (c.op \in SingleVariant /\ c.outcome = "returned") => PassThrough(c)

C5_Witness ==
    /\ last.op = "get_pools" /\ last.result = Prim(2)
    /\ prev.op = "create_group" /\ prev.outcome = "returned"
    /\ prev.a.group_spec = Obj(Tag(1, 3))
    /\ prev.sent[1].args.group_spec = Prim(Tag(1, 3))
    /\ prev.sent[1].args.request_spec_list = List(<<Prim(Tag(1, 2))>>)

\* C6 as claimed: a call changes nothing but the transport, to which it
\* hands at most one message.
C6_NoOtherSideEffect ==
    /\ workers = last.wbefore
    /\ Len(last.sent) <= 1

\* C6 as amended: a call hands at most one message to the transport and
\* changes nothing else, except that create_volume first calls
\* create_worker() on the volume it is given.
C6_OnlyCreateVolumeTouchesVolume ==
    /\ Len(last.sent) <= 1
    /\ workers = IF last.op = "create_volume"
                 THEN last.wbefore \cup {last.a.volume}
                 ELSE last.wbefore

C6_Witness ==
    /\ last.op = "create_volume"
    /\ last.a.volume \in workers
    /\ last.a.volume \notin last.wbefore
    /\ Len(last.sent) = 1
    /\ prev.op = "retype" /\ Len(prev.sent) = 1

SameCall(c, d) ==
    /\ c.op \in Methods
    /\ c.op = d.op
    /\ c.a = d.a
    /\ c.asked = d.asked
    /\ c.cap = d.cap

\* C7 as claimed: two calls with the same arguments under the same cap
\* hand the same messages to the transport.
C7_Idempotent == SameCall(prev, last) => prev.sent = last.sent

StampedNow(c) ==
    /\ c.op = "update_service_capabilities"
    /\ c.a.timestamp = None
    /\ Supported(c, <<3, 3>>)

Unstamped(m) ==
    [m EXCEPT !.args = [n \in Keys(m) \ {"timestamp"} |-> m.args[n]]]

\* C7 as amended: two calls with the same arguments under the same cap
\* hand the same messages to the transport, except that calls of
\* update_service_capabilities without a timestamp, when 3.3 can be sent,
\* agree on everything but the timestamp, which is the time of each call.
C7_IdempotentButForGeneratedTimestamp ==
    SameCall(prev, last) =>
        IF StampedNow(last)
        THEN /\ Len(prev.sent) = 1 /\ Len(last.sent) = 1
             /\ Unstamped(prev.sent[1]) = Unstamped(last.sent[1])
             /\ prev.sent[1].args.timestamp.k = "iso"
             /\ last.sent[1].args.timestamp.k = "iso"
             /\ prev.sent[1].args.timestamp.v <= last.sent[1].args.timestamp.v
        ELSE prev.sent = last.sent

C7_Witness ==
    /\ SameCall(prev, last)
    /\ StampedNow(last)
    /\ prev.sent[1].args.timestamp = Iso(0)
    /\ last.sent[1].args.timestamp = Iso(1)

\* The values a call may pass on: its own arguments, unchanged or in
\* primitive form.
OwnValues(c) ==
    {c.a[n] : n \in DOMAIN c.a} \cup {to_primitive(c.a[n]) : n \in DOMAIN c.a}

Consistent(c) ==
    /\ Len(c.asked) <= 1
    /\ Len(c.sent) <= 1
    /\ \A i \in DOMAIN c.sent :
          /\ c.sent[i].ctxt = c.a.ctxt
          /\ \A n \in Keys(c.sent[i]) : c.sent[i].args[n] \in OwnValues(c)
    /\ c.op = "migrate_volume" => MigrateShape(c)
    /\ c.op = "update_service_capabilities" =>
          /\ Len(c.sent) = 1
          /\ c.sent[1].version = <<3, 3>> <=> Supported(c, <<3, 3>>)
          /\ c.sent[1].version = <<3, 0>> <=> Unsupported(c, <<3, 3>>)
          /\ "timestamp" \in Keys(c.sent[1]) <=> Supported(c, <<3, 3>>)
          /\ "cluster_name" \in Keys(c.sent[1]) <=> Supported(c, <<3, 3>>)
    /\ c.op = "extend_volume" => (c.sent # <<>> <=> Supported(c, <<3, 2>>))
    /\ c.op = "notify_service_capabilities" =>
          (c.sent # <<>> <=> Supported(c, <<3, 1>>))

\* C8: with callers interleaved and the cap changing at any moment, every
\* finished call has asked can_send_version at most once and the message
\* it sent agrees with that one answer and is built from its own arguments.
C8_OneSnapshotPerCall ==
    \A t \in Callers :
        /\ Len(inv[t].asked) <= 1
        /\ inv[t].pc = "done" => Consistent(inv[t])

C8_Witness ==
    \E t, u \in Callers :
        /\ t # u
        /\ inv[t].pc = "done" /\ inv[t].op = "migrate_volume"
        /\ Supported(inv[t], <<3, 3>>)
        /\ ~can_send_version(capability, <<3, 3>>)
        /\ inv[t].sent[1].method = "migrate_volume"
        /\ inv[u].pc = "done" /\ inv[u].op = "migrate_volume"
        /\ Unsupported(inv[u], <<3, 3>>)
        /\ inv[u].sent[1].method = "migrate_volume_to_host"

\* C9 as claimed: a message sent by extend_volume has target version at
\* least 3.2 and one sent by notify_service_capabilities at least 3.1.
C9_TargetVersionIsGate ==
    \A i \in DOMAIN last.sent :
        /\ last.op = "extend_volume" => ~VersionLess(last.sent[i].version, <<3, 2>>)
        /\ last.op = "notify_service_capabilities" =>
              ~VersionLess(last.sent[i].version, <<3, 1>>)

AllDefaults(c) ==
    /\ c.op \in Methods
    /\ \A n \in Optional(c.op) : c.a[n] = Default(n)

\* C10 as claimed: a call that leaves every optional argument at its
\* default either hands exactly one message to the transport or raises
\* ServiceTooOld having sent nothing.
C10_DefaultsSendOrTooOld ==
    AllDefaults(last) =>
        \/ last.outcome = "returned" /\ Len(last.sent) = 1
        \/ last.outcome = "ServiceTooOld" /\ last.sent = <<>>

====
